---- MODULE Spec2Model ----
(***************************************************************************)
(* Model of the multi-source research agent: the CLI loop and the nine-    *)
(* node orchestration graph of main.py, the search adapters and the        *)
(* trigger / poll / download snapshot pipeline of webOperations.py and     *)
(* SnapshotOperation.py.                                                   *)
(*                                                                         *)
(* main.py imports the modules as web_operations / snapshot_operations    *)
(* and the prompt builders as get_*_messages; the model binds these names  *)
(* to the functions of webOperations.py, SnapshotOperation.py and          *)
(* prompts.py (the ..._msgs builders) that they are meant to denote.       *)
(*                                                                         *)
(* Python values are tagged records, so that truthiness tests ("if not     *)
(* x", "x or []"), dict.get and isinstance are computed as Python does.    *)
(* The provider and the language model are the environment: every answer   *)
(* they give is drawn from a small set with \E.  Answers to POST requests  *)
(* are JSON objects (the provider's interface) or errors; a snapshot       *)
(* download is any JSON value: an array, an object, or a scalar.           *)
(***************************************************************************)
EXTENDS Integers, Sequences, FiniteSets, TLC

VARIABLES
    credential,   \* BRIGHTDATA_API_KEY is set in the environment
    cli_pc,       \* position of start_agent: "input", "invoke", "exited", "crashed"
    state,        \* the ResearchState of the current (or last) graph run
    tasks,        \* nodes scheduled in the current superstep that have not started
    writes,       \* patches returned in this superstep, in order of return
    started,      \* node -> number of times the node started in this run
    completed,    \* nodes that returned a patch in this run
    error,        \* the uncaught exception of this run, or "none"
    llm_calls,    \* node -> number of model invocations in this run
    llm_errors,   \* nodes whose model invocation raised in this run
    net,          \* network requests issued in this run, by kind (polls are in pipe)
    pipe,         \* the snapshot pipeline call in progress (locals and counters)
    printed,      \* what start_agent printed after the last invoke
    call          \* an adapter called directly, outside the graph: arguments and outcome

vars == <<credential, cli_pc, state, tasks, writes, started, completed, error,
          llm_calls, llm_errors, net, pipe, printed, call>>

-----------------------------------------------------------------------------
(* Bounds of the model *)

\* longest list of URLs the model answers with
MaxUrls == 1
\* longest snapshot download (number of entries of the JSON array)
MaxRecords == 2

(* Program constants *)

\* max_retries default of check_snapshot_status
DefaultMaxRetries == 60
\* interval default of check_snapshot_status (seconds)
DefaultInterval == 5

-----------------------------------------------------------------------------
(* Python values *)

None == [t |-> "None"]
PyStr(s) == [t |-> "str", v |-> s]
PyBool(b) == [t |-> "bool", v |-> b]
PyInt(i) == [t |-> "int", v |-> i]
PyList(l) == [t |-> "list", v |-> l]
PyDict(d) == [t |-> "dict", v |-> d]
EmptyDict == PyDict([k \in {} |-> None])

\* bool(x): the truth value Python gives x in "if not x" and "x or y"
Truthy(x) ==
    CASE x.t = "None" -> FALSE
      [] x.t = "bool" -> x.v
      [] x.t = "int"  -> x.v # 0
      [] x.t = "str"  -> x.v # ""
      [] x.t = "list" -> Len(x.v) > 0
      [] x.t = "dict" -> DOMAIN x.v # {}

\* d.get(k): the value under k, None when the key is absent
DictGet(d, k) == IF k \in DOMAIN d.v THEN d.v[k] ELSE None

\* d.get(k, default)
DictGetDefault(d, k, default) == IF k \in DOMAIN d.v THEN d.v[k] ELSE default

RECURSIVE SeqsUpTo(_, _)
\* all sequences over S of length at most n
SeqsUpTo(S, n) ==
    IF n = 0 THEN {<<>>}
    ELSE LET shorter == SeqsUpTo(S, n - 1)
         IN  shorter \cup {Append(s, x) : s \in shorter, x \in S}

RECURSIVE SelectDictsReversed(_)
\* SelectDicts with the object entries in reverse order
SelectDictsReversed(l) ==
    IF l = <<>> THEN <<>>
    ELSE IF Head(l).t = "dict" THEN SelectDictsReversed(Tail(l)) \o <<Head(l)>>
         ELSE SelectDictsReversed(Tail(l))

RECURSIVE SelectDicts(_)
\* [e for e in data if isinstance(e, dict)]: the object entries, in order
SelectDicts(l) ==
    IF l = <<>> THEN <<>>
    ELSE IF Head(l).t = "dict" THEN <<Head(l)>> \o SelectDicts(Tail(l))
         ELSE SelectDicts(Tail(l))

-----------------------------------------------------------------------------
(* HTTP answers of the provider *)

\* an answer is a failure of requests.post/get, of raise_for_status, of
\* response.json(), or a parsed JSON body
HttpFailures == {"transport_error", "http_error", "bad_json"}
HttpOk(body) == [kind |-> "ok", body |-> body]
NoAnswer == [kind |-> "none", body |-> None]
HttpAnswers(bodies) ==
    {[kind |-> k, body |-> None] : k \in HttpFailures} \cup {HttpOk(b) : b \in bodies}

SnapshotIds == {"s1", "s2"}

\* bodies of POST /datasets/v3/trigger
TriggerBodies ==
    {EmptyDict, PyDict([error |-> PyStr("bad dataset")]),
     PyDict([snapshot_id |-> None]), PyDict([snapshot_id |-> PyStr("")])}
    \cup {PyDict([snapshot_id |-> PyStr(s)]) : s \in SnapshotIds}

\* bodies of GET /datasets/v3/progress/{id}
ProgressBodies ==
    {PyDict([status |-> PyStr(s)]) : s \in {"ready", "failed", "running", "queued"}}
    \cup {PyList(<<>>)}

\* bodies of POST /request (SERP)
SerpBodies ==
    {EmptyDict, PyDict([knowledge |-> PyStr("k"), organic |-> PyStr("o")])}

\* entries of a snapshot download of the keyword-discovery dataset
PostEntries ==
    {PyDict([title |-> PyStr("t1"), url |-> PyStr("u1")]), PyStr("junk")}

\* entries of a snapshot download of the post-comments dataset
CommentEntries ==
    {PyDict([comment_id |-> PyStr("c1"), comment |-> PyStr("hello"),
             date_posted |-> PyStr("d1")]),
     None}

\* bodies of GET /datasets/v3/snapshot/{id}: an array of entries, or an object
DownloadBodies(entries) ==
    {PyList(l) : l \in SeqsUpTo(entries, MaxRecords)}
    \cup {EmptyDict, PyDict([status |-> PyStr("building")])}

\* a body of the download that is neither array nor object: response.json()
\* returns whatever JSON value the body holds
ScalarBodies == {PyInt(1)}

\* entries and scalar bodies of the downloads answered to an adapter that is
\* called directly: two distinct records, so that their order shows
DirectPostEntries ==
    PostEntries \cup {PyDict([title |-> PyStr("t2")]), None}

DirectCommentEntries ==
    CommentEntries \cup {PyDict([comment_id |-> PyStr("c2")]), PyStr("junk")}

DirectScalarBodies ==
    {PyInt(0), PyInt(1), PyBool(FALSE), PyBool(TRUE), PyStr(""), PyStr("ab"), None}

\* the downloads the provider may answer to the pipeline run for `caller`
DownloadsFor(caller) ==
    CASE caller = "reddit_search" -> DownloadBodies(PostEntries) \cup ScalarBodies
      [] caller = "fetch_reddit_posts" -> DownloadBodies(CommentEntries) \cup ScalarBodies
      [] caller = "reddit_search_api" ->
            DownloadBodies(DirectPostEntries) \cup DirectScalarBodies
      [] OTHER -> DownloadBodies(DirectCommentEntries) \cup DirectScalarBodies

-----------------------------------------------------------------------------
(* The language model *)

Urls == {"u1", "u2"}

\* result.selected_urls of a successful structured call
UrlSelections == {PyList(l) : l \in SeqsUpTo({PyStr(u) : u \in Urls}, MaxUrls)}

\* response.content of a successful call
Contents == {PyStr(""), PyStr("text")}

-----------------------------------------------------------------------------
(* Snapshot client: SnapshotOperation.py and _execute_snapshot_pipeline *)

\* no pipeline call in progress
IdlePipe ==
    [pc |-> "idle",            \* "idle", "request", "sleep", "checked", "returned"
     caller |-> "none",        \* the node whose adapter runs the pipeline
     task_name |-> "none",
     dataset_id |-> "none",
     payload |-> None,         \* JSON payload of the trigger request
     triggers |-> 0,           \* trigger requests issued by this call
     trigger_id |-> None,      \* snapshot_id carried by the trigger response
     snapshot_id |-> None,     \* the local snapshot_id handed to poll and download
     max_retries |-> 0,
     interval |-> 0,
     attempt |-> 0,            \* loop variable of check_snapshot_status
     requests |-> 0,           \* status requests issued by this call
     polled_id |-> None,       \* id in the URL of the last status request
     answer |-> NoAnswer,      \* the provider's answer to the last GET request
     observed |-> "none",      \* the branch the loop took on that answer
     transient |-> 0,          \* iterations that ended without a return
     sleeps |-> 0,             \* time.sleep calls of this call
     slept |-> 0,              \* seconds slept by this call
     ready |-> None,           \* return value of check_snapshot_status
     downloads |-> 0,          \* download requests issued by this call
     download_id |-> None,     \* id in the URL of the download request
     result |-> None]          \* return value of _execute_snapshot_pipeline

\* _send_api_request once the credential is read: the parsed body, or None
\* on any exception of post, raise_for_status or json
SendApiRequest(answer) == IF answer.kind = "ok" THEN answer.body ELSE None

\* Observe with the except clause giving up: an exception counts as failed
ObserveErrorFails(answer) ==
    IF answer.kind # "ok" THEN "failed"
    ELSE IF answer.body.t # "dict" THEN "failed"
    ELSE LET status == DictGet(answer.body, "status")
         IN  IF status = PyStr("ready") THEN "ready"
             ELSE IF status = PyStr("failed") THEN "failed"
             ELSE IF status = PyStr("running") THEN "running"
             ELSE "unexpected"

\* what one iteration of the polling loop makes of the answer: the status
\* branch taken, "error" when the try block raises (the get, raise_for_status,
\* json, or data.get on a body that is no object)
Observe(answer) ==
    IF answer.kind # "ok" THEN "error"
    ELSE IF answer.body.t # "dict" THEN "error"
    ELSE LET status == DictGet(answer.body, "status")
         IN  IF status = PyStr("ready") THEN "ready"
             ELSE IF status = PyStr("failed") THEN "failed"
             ELSE IF status = PyStr("running") THEN "running"
             ELSE "unexpected"

\* EnterPoll with the loop starting at attempt 0, range(0, max_retries + 1)
EnterPollFromZero(p, snapshot_id, max_retries, interval) ==
    [p EXCEPT !.snapshot_id = snapshot_id, !.max_retries = max_retries,
              !.interval = interval, !.pc = "request", !.attempt = 0]

\* check_snapshot_status(snapshot_id) is entered: the for loop starts at
\* attempt 1, or falls through to the timeout when range(1, max_retries + 1)
\* is empty
EnterPoll(p, snapshot_id, max_retries, interval) ==
    LET q == [p EXCEPT !.snapshot_id = snapshot_id, !.max_retries = max_retries,
                       !.interval = interval]
    IN  IF max_retries >= 1
        THEN [q EXCEPT !.pc = "request", !.attempt = 1]
        ELSE [q EXCEPT !.pc = "checked", !.ready = PyBool(FALSE)]

\* TriggerStep without the check of snapshot_id: a response that carries no
\* identifier is polled all the same
TriggerStepUnchecked(caller, task_name, dataset_id, payload, answer) ==
    LET p == [IdlePipe EXCEPT !.caller = caller, !.task_name = task_name,
                              !.dataset_id = dataset_id, !.payload = payload,
                              !.triggers = 1]
        trigger_response == SendApiRequest(answer)
        snapshot_id == DictGet(trigger_response, "snapshot_id")
    IN  IF ~Truthy(trigger_response)
        THEN [p EXCEPT !.pc = "returned", !.result = None]
        ELSE EnterPoll([p EXCEPT !.trigger_id = snapshot_id], snapshot_id,
                       DefaultMaxRetries, DefaultInterval)

\* _execute_snapshot_pipeline up to the call of check_snapshot_status: one
\* trigger request, then the two early returns
TriggerStep(caller, task_name, dataset_id, payload, answer) ==
    LET p == [IdlePipe EXCEPT !.caller = caller, !.task_name = task_name,
                              !.dataset_id = dataset_id, !.payload = payload,
                              !.triggers = 1]
        trigger_response == SendApiRequest(answer)
        snapshot_id == DictGet(trigger_response, "snapshot_id")
    IN  IF ~Truthy(trigger_response)
        THEN [p EXCEPT !.pc = "returned", !.result = None]
        ELSE IF ~Truthy(snapshot_id)
        THEN [p EXCEPT !.pc = "returned", !.result = None,
                       !.trigger_id = snapshot_id]
        ELSE EnterPoll([p EXCEPT !.trigger_id = snapshot_id], snapshot_id,
                       DefaultMaxRetries, DefaultInterval)

\* PollStep with the failed branch falling through to the sleep
PollStepFailedRetried(p, answer) ==
    LET seen == Observe(answer)
        q == [p EXCEPT !.requests = @ + 1, !.polled_id = p.snapshot_id,
                       !.answer = answer, !.observed = seen]
    IN  IF seen = "ready" THEN [q EXCEPT !.pc = "checked", !.ready = PyBool(TRUE)]
        ELSE [q EXCEPT !.pc = "sleep", !.transient = @ + 1]

\* one iteration of the loop up to the sleep: the status request and the
\* branch on the status; ready and failed return from inside the loop
PollStep(p, answer) ==
    LET seen == Observe(answer)
        q == [p EXCEPT !.requests = @ + 1, !.polled_id = p.snapshot_id,
                       !.answer = answer, !.observed = seen]
    IN  IF seen = "ready" THEN [q EXCEPT !.pc = "checked", !.ready = PyBool(TRUE)]
        ELSE IF seen = "failed" THEN [q EXCEPT !.pc = "checked", !.ready = PyBool(FALSE)]
        ELSE [q EXCEPT !.pc = "sleep", !.transient = @ + 1]

\* SleepStep with one attempt too many, range(1, max_retries + 2)
SleepStepExtraAttempt(p) ==
    LET q == [p EXCEPT !.sleeps = @ + 1, !.slept = @ + p.interval]
    IN  IF p.attempt < p.max_retries + 1
        THEN [q EXCEPT !.pc = "request", !.attempt = @ + 1]
        ELSE [q EXCEPT !.pc = "checked", !.ready = PyBool(FALSE)]

\* SleepStep of a loop that never gives up (while True)
SleepStepNeverGivesUp(p) ==
    [p EXCEPT !.sleeps = @ + 1, !.slept = @ + p.interval, !.pc = "request"]

\* SleepStep with no sleep after the last attempt
SleepStepSkipsLast(p) ==
    IF p.attempt < p.max_retries
    THEN [p EXCEPT !.sleeps = @ + 1, !.slept = @ + p.interval,
                   !.pc = "request", !.attempt = @ + 1]
    ELSE [p EXCEPT !.pc = "checked", !.ready = PyBool(FALSE)]

\* time.sleep(interval) at the end of an iteration, then the next attempt,
\* or the timeout return when the range is exhausted
SleepStep(p) ==
    LET q == [p EXCEPT !.sleeps = @ + 1, !.slept = @ + p.interval]
    IN  IF p.attempt < p.max_retries
        THEN [q EXCEPT !.pc = "request", !.attempt = @ + 1]
        ELSE [q EXCEPT !.pc = "checked", !.ready = PyBool(FALSE)]

\* fetch_snapshot_data: the parsed body whatever its shape, None on any
\* exception
FetchSnapshotData(answer) == IF answer.kind = "ok" THEN answer.body ELSE None

\* check_snapshot_status has returned to _execute_snapshot_pipeline: its
\* locals are gone, its return value stays
AfterPoll(p) ==
    [p EXCEPT !.max_retries = 0, !.interval = 0, !.attempt = 0, !.requests = 0,
              !.polled_id = None, !.answer = NoAnswer, !.observed = "none",
              !.transient = 0, !.sleeps = 0, !.slept = 0]

\* _execute_snapshot_pipeline after check_snapshot_status returned False
GiveUpStep(p) == [AfterPoll(p) EXCEPT !.pc = "returned", !.result = None]

\* _execute_snapshot_pipeline after check_snapshot_status returned True:
\* the download request, whose result is the pipeline's
DownloadStep(p, answer) ==
    [AfterPoll(p) EXCEPT !.pc = "returned", !.downloads = @ + 1,
                         !.download_id = p.snapshot_id, !.answer = answer,
                         !.result = FetchSnapshotData(answer)]

-----------------------------------------------------------------------------
(* Search adapters: webOperations.py *)

REDDIT_DISCOVERY_DATASET == "gd_lvz8ah06191smkebj4"
REDDIT_POSTS_DATASET == "gd_lvzdpsdlw09j6t702"

\* num_of_posts default of reddit_search_api
DefaultNumOfPosts == 75
\* days_back default of reddit_post_retrieval
DefaultDaysBack == 10

\* the engines serp_search knows (keys of base_urls)
Engines == {"google", "bing"}

\* the value serp_search returns for the parsed body _send_api_request gave
SerpResult(response_data) ==
    IF ~Truthy(response_data) THEN None
    ELSE PyDict([knowledge |-> DictGetDefault(response_data, "knowledge", EmptyDict),
                 organic |-> DictGetDefault(response_data, "organic", PyList(<<>>))])

\* SerpSearch with the missing credential turned into a null result
SerpSearchNullWithoutCredential(query, engine, answer) ==
    IF engine \notin Engines
    THEN [raises |-> "ValueError", value |-> None, requests |-> 0, reads |-> 0]
    ELSE IF ~credential
    THEN [raises |-> "none", value |-> None, requests |-> 0, reads |-> 1]
    ELSE [raises |-> "none", value |-> SerpResult(SendApiRequest(answer)),
          requests |-> 1, reads |-> 1]

\* SerpSearch with the engine checked after the request was sent
SerpSearchChecksEngineLast(query, engine, answer) ==
    IF ~credential
    THEN [raises |-> "EnvironmentError", value |-> None, requests |-> 0, reads |-> 1]
    ELSE IF engine \notin Engines
    THEN [raises |-> "ValueError", value |-> None, requests |-> 1, reads |-> 1]
    ELSE [raises |-> "none", value |-> SerpResult(SendApiRequest(answer)),
          requests |-> 1, reads |-> 1]

\* serp_search(query, engine) given the provider's answer: what it raises
\* ("none" when it returns), what it returns, the requests it issued and the
\* reads of the credential it made; the engine is checked first, the
\* credential is read by _send_api_request before the request is sent
SerpSearch(query, engine, answer) ==
    IF engine \notin Engines
    THEN [raises |-> "ValueError", value |-> None, requests |-> 0, reads |-> 0]
    ELSE IF ~credential
    THEN [raises |-> "EnvironmentError", value |-> None, requests |-> 0, reads |-> 1]
    ELSE [raises |-> "none", value |-> SerpResult(SendApiRequest(answer)),
          requests |-> 1, reads |-> 1]

\* the entries a for loop over a download visits: the elements of a list;
\* for an object its keys, which are strings (their order is immaterial to
\* the callers, which drop every non-object entry)
RECURSIVE KeySeq(_)
KeySeq(ks) ==
    IF ks = {} THEN <<>>
    ELSE LET k == CHOOSE x \in ks : TRUE IN <<PyStr(k)>> \o KeySeq(ks \ {k})

\* the characters of a string body
Chars(str) == IF str = "ab" THEN <<PyStr("a"), PyStr("b")>> ELSE <<>>

\* iter(x) succeeds: lists, dicts and strings are iterable; None, bools and
\* numbers are not
Iterable(x) == x.t \in {"list", "dict", "str"}

Iterate(x) ==
    IF x.t = "list" THEN x.v
    ELSE IF x.t = "str" THEN Chars(x.v)
    ELSE KeySeq(DOMAIN x.v)

\* what the comprehension over snapshot_data raises: a truthy value that is
\* not iterable makes `for ... in snapshot_data` raise TypeError, outside any
\* try block
ComprehensionRaises(snapshot_data) ==
    IF Truthy(snapshot_data) /\ ~Iterable(snapshot_data) THEN "TypeError" ELSE "none"

\* payload of the trigger request of reddit_search_api
RedditSearchPayload(keyword) ==
    PyList(<<PyDict([keyword |-> keyword, date |-> PyStr("All time"),
                     sort_by |-> PyStr("Hot"),
                     num_of_posts |-> PyInt(DefaultNumOfPosts)])>>)

\* reddit_search_api after the pipeline returned snapshot_data
RedditSearchResult(snapshot_data) ==
    IF ~Truthy(snapshot_data) THEN None
    ELSE LET kept == SelectDicts(Iterate(snapshot_data))
             parsed_posts == [i \in 1..Len(kept) |->
                                 PyDict([title |-> DictGet(kept[i], "title"),
                                         url |-> DictGet(kept[i], "url")])]
         IN  PyDict([parsed_posts |-> PyList(parsed_posts),
                     total_found |-> PyInt(Len(parsed_posts))])

\* RedditPostPayloadWith with the entries in the reverse order of the URLs
RedditPostPayloadReversed(urls, days_back, load_all_replies, comment_limit) ==
    PyList([i \in 1..Len(urls.v) |->
               PyDict([url |-> urls.v[Len(urls.v) + 1 - i],
                       days_back |-> PyInt(days_back),
                       load_all_replies |-> PyBool(load_all_replies),
                       comment_limit |-> PyStr(comment_limit)])])

\* payload of the trigger request of reddit_post_retrieval: one entry per URL
RedditPostPayloadWith(urls, days_back, load_all_replies, comment_limit) ==
    PyList([i \in 1..Len(urls.v) |->
               PyDict([url |-> urls.v[i], days_back |-> PyInt(days_back),
                       load_all_replies |-> PyBool(load_all_replies),
                       comment_limit |-> PyStr(comment_limit)])])

\* the payload when only the URLs are given, as fetch_reddit_posts does
RedditPostPayload(urls) == RedditPostPayloadWith(urls, DefaultDaysBack, FALSE, "")

\* RedditPostRetrievalStart without the check of urls
RedditPostRetrievalStartUnchecked(urls, days_back, load_all_replies, comment_limit) ==
    [early |-> FALSE,
     payload |-> IF urls.t = "list"
                 THEN RedditPostPayloadWith(urls, days_back, load_all_replies,
                                            comment_limit)
                 ELSE PyList(<<>>)]

\* reddit_post_retrieval up to the pipeline: the early return on `not urls`,
\* else the payload it triggers the snapshot with
RedditPostRetrievalStart(urls, days_back, load_all_replies, comment_limit) ==
    IF ~Truthy(urls) THEN [early |-> TRUE, payload |-> None]
    ELSE [early |-> FALSE,
          payload |-> RedditPostPayloadWith(urls, days_back, load_all_replies,
                                            comment_limit)]

\* reddit_post_retrieval after the pipeline returned snapshot_data
RedditPostResult(snapshot_data) ==
    IF ~Truthy(snapshot_data) THEN None
    ELSE LET kept == SelectDicts(Iterate(snapshot_data))
             parsed_comments == [i \in 1..Len(kept) |->
                                    PyDict([comment_id |-> DictGet(kept[i], "comment_id"),
                                            content |-> DictGet(kept[i], "comment"),
                                            date |-> DictGet(kept[i], "date_posted")])]
         IN  PyDict([comments |-> PyList(parsed_comments),
                     total_retrieved |-> PyInt(Len(parsed_comments))])

-----------------------------------------------------------------------------
(* The orchestration graph: main.py *)

START == "__start__"
END == "__end__"

Nodes ==
    {"google_search", "bing_search", "reddit_search", "extract_reddit_urls",
     "fetch_reddit_posts", "analyze_google", "analyze_bing", "analyze_reddit",
     "synthesize_results"}

\* the edges of the graph
GraphEdges ==
    {<<START, "google_search">>, <<START, "bing_search">>, <<START, "reddit_search">>,
     <<"google_search", "extract_reddit_urls">>,
     <<"bing_search", "extract_reddit_urls">>,
     <<"reddit_search", "extract_reddit_urls">>,
     <<"extract_reddit_urls", "fetch_reddit_posts">>,
     <<"fetch_reddit_posts", "analyze_google">>,
     <<"fetch_reddit_posts", "analyze_bing">>,
     <<"fetch_reddit_posts", "analyze_reddit">>,
     <<"analyze_google", "synthesize_results">>,
     <<"analyze_bing", "synthesize_results">>,
     <<"analyze_reddit", "synthesize_results">>,
     <<"synthesize_results", END>>}

\* the edges with one more, from google_search straight to fetch_reddit_posts
EdgesWithShortcut == GraphEdges \cup {<<"google_search", "fetch_reddit_posts">>}

\* the edges with one more, from extract_reddit_urls to synthesize_results
EdgesSynthesisEarly ==
    GraphEdges \cup {<<"extract_reddit_urls", "synthesize_results">>}

\* the add_edge calls
Edges == GraphEdges

\* the nodes the compiled graph schedules for the superstep after the one in
\* which the nodes of `ran` returned: every node with an edge from one of them
Triggered(ran) == {n \in Nodes : \E m \in ran : <<m, n>> \in Edges}

\* the state start_agent builds for a query
InitialState(query) ==
    [messages |-> PyList(<<PyDict([role |-> PyStr("user"), content |-> PyStr(query)])>>),
     user_query |-> PyStr(query),
     google_output |-> None,
     bing_output |-> None,
     reddit_output |-> None,
     chosen_reddit_urls |-> None,
     reddit_posts_data |-> None,
     google_summary |-> None,
     bing_summary |-> None,
     reddit_summary |-> None,
     final_summary |-> None]

\* add_messages replaced by plain assignment: the update overwrites the log
replace_messages(left, right) == PyList(right.v)

\* add_messages: the reducer of the messages channel appends the update
add_messages(left, right) == PyList(left.v \o right.v)

RECURSIVE ApplyWrites(_, _)
\* the patches of a superstep merged into the state in the order the nodes
\* returned them: messages through its reducer, every other field overwritten
ApplyWrites(st, ws) ==
    IF ws = <<>> THEN st
    ELSE LET patch == Head(ws).patch
             merged == [f \in DOMAIN st |->
                          IF f \notin DOMAIN patch THEN st[f]
                          ELSE IF f = "messages" THEN add_messages(st[f], patch[f])
                          ELSE patch[f]]
         IN  ApplyWrites(merged, Tail(ws))

\* the nodes whose patches are in ws
Writers(ws) == {ws[i].node : i \in 1..Len(ws)}

ZeroCount == [n \in Nodes |-> 0]
NoRequests == [serp |-> 0, trigger |-> 0, download |-> 0]

\* no adapter is called directly
NoCall ==
    [fn |-> "none",            \* the adapter called
     args |-> None,            \* its arguments
     pc |-> "idle",            \* "idle", "running", "done"
     reads |-> 0,              \* reads of BRIGHTDATA_API_KEY made by the call
     raises |-> "none",        \* the exception the call raised, "none" if it returned
     result |-> None]          \* the value the call returned

-----------------------------------------------------------------------------
(* start_agent *)

\* the lines the user types
Lines == {"exit", "EXIT", "Exit", "", "q"}

\* the comparison made without lower(): the line as typed
KeepCase(line) == line

\* str.lower on the lines above
Lower(line) == IF line \in {"exit", "EXIT", "Exit"} THEN "exit" ELSE line

Separator == "--------"

Init ==
    /\ credential \in BOOLEAN
    /\ cli_pc = "input"
    /\ state = InitialState("")
    /\ tasks = {}
    /\ writes = <<>>
    /\ started = ZeroCount
    /\ completed = {}
    /\ error = "none"
    /\ llm_calls = ZeroCount
    /\ llm_errors = {}
    /\ net = NoRequests
    /\ pipe = IdlePipe
    /\ printed = <<>>
    /\ call = NoCall

\* input() returns "exit" in some letter case: the loop breaks
ReadExit ==
    /\ cli_pc = "input"
    /\ \E line \in Lines :
          /\ Lower(line) = "exit"
          /\ cli_pc' = "exited"
    /\ UNCHANGED <<call, credential, state, tasks, writes, started, completed, error,
                   llm_calls, llm_errors, net, pipe, printed>>

\* ReadQuery with the state dict of the previous query reused: only the
\* query is replaced and the new user message goes through the reducer
ReadQueryKeepsState ==
    /\ cli_pc = "input"
    /\ \E line \in Lines :
          /\ Lower(line) # "exit"
          /\ state' = [state EXCEPT
                          !.user_query = PyStr(line),
                          !.messages = add_messages(@, InitialState(line).messages)]
    /\ cli_pc' = "invoke"
    /\ tasks' = Triggered({START})
    /\ writes' = <<>>
    /\ started' = ZeroCount
    /\ completed' = {}
    /\ error' = "none"
    /\ llm_calls' = ZeroCount
    /\ llm_errors' = {}
    /\ net' = NoRequests
    /\ pipe' = IdlePipe
    /\ printed' = <<>>
    /\ UNCHANGED <<call, credential>>

\* input() returns any other line: a fresh state is built and
\* compiled_graph.invoke(state) schedules the nodes START points to
ReadQuery ==
    /\ cli_pc = "input"
    /\ \E line \in Lines :
          /\ Lower(line) # "exit"
          /\ state' = InitialState(line)
    /\ cli_pc' = "invoke"
    /\ tasks' = Triggered({START})
    /\ writes' = <<>>
    /\ started' = ZeroCount
    /\ completed' = {}
    /\ error' = "none"
    /\ llm_calls' = ZeroCount
    /\ llm_errors' = {}
    /\ net' = NoRequests
    /\ pipe' = IdlePipe
    /\ printed' = <<>>
    /\ UNCHANGED <<call, credential>>

-----------------------------------------------------------------------------
(* How a node leaves the superstep *)

\* the node function returned `patch`
Returns(node, patch) ==
    /\ writes' = Append(writes, [node |-> node, patch |-> patch])
    /\ completed' = completed \cup {node}
    /\ error' = error

\* the node function raised `exc`: the first exception is the run's, and the
\* tasks of the superstep that have not started are cancelled
Raises(node, exc) ==
    /\ writes' = writes
    /\ completed' = completed
    /\ error' = IF error = "none" THEN exc ELSE error

\* `node` is taken from the scheduled tasks and starts running
Start(node) ==
    /\ cli_pc = "invoke"
    /\ node \in tasks
    /\ started' = [started EXCEPT ![node] = @ + 1]

\* the scheduled tasks after `node` started and raised or not
Remaining(node, raised) == IF raised THEN {} ELSE tasks \ {node}

-----------------------------------------------------------------------------
(* Search nodes *)

\* perform_google_search / perform_bing_search: one serp_search call
SerpNode(node, engine, field) ==
    /\ Start(node)
    /\ \E answer \in HttpAnswers(SerpBodies) :
          LET r == SerpSearch(state.user_query, engine, answer)
          IN  /\ net' = [net EXCEPT !.serp = @ + r.requests]
              /\ tasks' = Remaining(node, r.raises # "none")
              /\ IF r.raises # "none"
                 THEN Raises(node, r.raises)
                 ELSE Returns(node, [f \in {field} |-> r.value])
    /\ UNCHANGED <<call, credential, cli_pc, state, llm_calls, llm_errors, pipe, printed>>

perform_google_search == SerpNode("google_search", "google", "google_output")

perform_bing_search == SerpNode("bing_search", "bing", "bing_output")

\* a node calls an adapter that runs _execute_snapshot_pipeline: the
\* credential is read by _send_api_request, then the trigger request is
\* issued and answered
CallPipeline(node, task_name, dataset_id, payload) ==
    IF ~credential
    THEN /\ tasks' = Remaining(node, TRUE)
         /\ Raises(node, "EnvironmentError")
         /\ UNCHANGED <<net, pipe>>
    ELSE /\ tasks' = Remaining(node, FALSE)
         /\ \E answer \in HttpAnswers(TriggerBodies) :
               pipe' = TriggerStep(node, task_name, dataset_id, payload, answer)
         /\ net' = [net EXCEPT !.trigger = @ + 1]
         /\ UNCHANGED <<writes, completed, error>>

\* perform_reddit_search up to the answer of the trigger request
perform_reddit_search ==
    /\ Start("reddit_search")
    /\ CallPipeline("reddit_search", "reddit search", REDDIT_DISCOVERY_DATASET,
                    RedditSearchPayload(state.user_query))
    /\ UNCHANGED <<call, credential, cli_pc, state, llm_calls, llm_errors, printed>>

-----------------------------------------------------------------------------
(* The pipeline call in progress *)

\* one status request of check_snapshot_status and the branch on its answer
PollAttempt ==
    /\ pipe.pc = "request"
    /\ \E answer \in HttpAnswers(ProgressBodies) : pipe' = PollStep(pipe, answer)
    /\ UNCHANGED <<call, credential, cli_pc, state, tasks, writes, started, completed,
                   error, llm_calls, llm_errors, net, printed>>

\* the sleep that ends an iteration without a terminal status
PollSleep ==
    /\ pipe.pc = "sleep"
    /\ pipe' = SleepStep(pipe)
    /\ UNCHANGED <<call, credential, cli_pc, state, tasks, writes, started, completed,
                   error, llm_calls, llm_errors, net, printed>>

\* check_snapshot_status returned False: the pipeline returns None
PipelineGiveUp ==
    /\ pipe.pc = "checked"
    /\ pipe.caller # "check_snapshot_status"
    /\ ~Truthy(pipe.ready)
    /\ pipe' = GiveUpStep(pipe)
    /\ UNCHANGED <<call, credential, cli_pc, state, tasks, writes, started, completed,
                   error, llm_calls, llm_errors, net, printed>>

\* check_snapshot_status returned True: fetch_snapshot_data is called
PipelineDownload ==
    /\ pipe.pc = "checked"
    /\ pipe.caller # "check_snapshot_status"
    /\ Truthy(pipe.ready)
    /\ \E answer \in HttpAnswers(DownloadsFor(pipe.caller)) :
          pipe' = DownloadStep(pipe, answer)
    /\ net' = [net EXCEPT !.download = @ + 1]
    /\ UNCHANGED <<call, credential, cli_pc, state, tasks, writes, started, completed,
                   error, llm_calls, llm_errors, printed>>

\* the pipeline returned to reddit_search_api, which returns to
\* perform_reddit_search, or raises through it
reddit_search_return ==
    /\ pipe.pc = "returned"
    /\ pipe.caller = "reddit_search"
    /\ IF ComprehensionRaises(pipe.result) # "none"
       THEN /\ Raises("reddit_search", ComprehensionRaises(pipe.result))
            /\ tasks' = {}
       ELSE /\ Returns("reddit_search",
                       [reddit_output |-> RedditSearchResult(pipe.result)])
            /\ tasks' = tasks
    /\ pipe' = IdlePipe
    /\ UNCHANGED <<call, credential, cli_pc, state, started, llm_calls, llm_errors, net,
                   printed>>

\* the pipeline returned to reddit_post_retrieval, which returns to
\* fetch_reddit_posts (posts or []), or raises through it
fetch_reddit_posts_return ==
    /\ pipe.pc = "returned"
    /\ pipe.caller = "fetch_reddit_posts"
    /\ IF ComprehensionRaises(pipe.result) # "none"
       THEN /\ Raises("fetch_reddit_posts", ComprehensionRaises(pipe.result))
            /\ tasks' = {}
       ELSE LET posts == RedditPostResult(pipe.result)
            IN  /\ Returns("fetch_reddit_posts",
                           [reddit_posts_data |->
                               IF Truthy(posts) THEN posts ELSE PyList(<<>>)])
                /\ tasks' = tasks
    /\ pipe' = IdlePipe
    /\ UNCHANGED <<call, credential, cli_pc, state, started, llm_calls, llm_errors, net,
                   printed>>

-----------------------------------------------------------------------------
(* Reddit URL filtering and post retrieval *)

\* what structured_llm.invoke does: it raises, or returns an object with
\* selected_urls
StructuredAnswers ==
    {[kind |-> "raise", selected_urls |-> None]}
    \cup {[kind |-> "ok", selected_urls |-> u] : u \in UrlSelections}

\* what llm.invoke does: it raises, or returns a response with content
ModelAnswers ==
    {[kind |-> "raise", content |-> None]}
    \cup {[kind |-> "ok", content |-> c] : c \in Contents}

\* ExtractUrls without the early return on an absent reddit_output
ExtractUrlsAlwaysAsks(reddit_raw, answer) ==
    [urls |-> IF answer.kind = "ok" THEN answer.selected_urls ELSE PyList(<<>>),
     calls |-> 1,
     failed |-> answer.kind # "ok",
     raises |-> "none"]

\* ExtractUrls without the try block: a failed invocation propagates
ExtractUrlsUncaught(reddit_raw, answer) ==
    IF ~Truthy(reddit_raw)
    THEN [urls |-> PyList(<<>>), calls |-> 0, failed |-> FALSE, raises |-> "none"]
    ELSE [urls |-> IF answer.kind = "ok" THEN answer.selected_urls ELSE PyList(<<>>),
          calls |-> 1,
          failed |-> answer.kind # "ok",
          raises |-> IF answer.kind = "ok" THEN "none" ELSE "ModelError"]

\* extract_reddit_urls given the model's answer: the URL list it returns and
\* the model invocations it made; the try block turns a failed invocation
\* into the empty list
ExtractUrls(reddit_raw, answer) ==
    IF ~Truthy(reddit_raw)
    THEN [urls |-> PyList(<<>>), calls |-> 0, failed |-> FALSE, raises |-> "none"]
    ELSE [urls |-> IF answer.kind = "ok" THEN answer.selected_urls ELSE PyList(<<>>),
          calls |-> 1,
          failed |-> answer.kind # "ok",
          raises |-> "none"]

extract_reddit_urls ==
    /\ Start("extract_reddit_urls")
    /\ \E answer \in StructuredAnswers :
          LET r == ExtractUrls(state.reddit_output, answer)
          IN  /\ llm_calls' = [llm_calls EXCEPT !["extract_reddit_urls"] = @ + r.calls]
              /\ llm_errors' = IF r.failed THEN llm_errors \cup {"extract_reddit_urls"}
                               ELSE llm_errors
              /\ tasks' = Remaining("extract_reddit_urls", r.raises # "none")
              /\ IF r.raises # "none"
                 THEN Raises("extract_reddit_urls", r.raises)
                 ELSE Returns("extract_reddit_urls", [chosen_reddit_urls |-> r.urls])
    /\ UNCHANGED <<call, credential, cli_pc, state, net, pipe, printed>>

\* fetch_reddit_posts up to the answer of the trigger request, or its early
\* return when there is no URL
fetch_reddit_posts ==
    /\ Start("fetch_reddit_posts")
    /\ LET urls == state.chosen_reddit_urls
       IN  IF ~Truthy(urls)
           THEN /\ tasks' = Remaining("fetch_reddit_posts", FALSE)
                /\ Returns("fetch_reddit_posts", [reddit_posts_data |-> PyList(<<>>)])
                /\ UNCHANGED <<net, pipe>>
           ELSE CallPipeline("fetch_reddit_posts", "reddit comments",
                             REDDIT_POSTS_DATASET, RedditPostPayload(urls))
    /\ UNCHANGED <<call, credential, cli_pc, state, llm_calls, llm_errors, printed>>

-----------------------------------------------------------------------------
(* Analysis and synthesis nodes *)

\* ModelNode with the invocation in a try block that falls back to an empty
\* summary
ModelNodeWithFallback(node, patch) ==
    /\ Start(node)
    /\ \E answer \in ModelAnswers :
          /\ llm_calls' = [llm_calls EXCEPT ![node] = @ + 1]
          /\ llm_errors' = IF answer.kind = "raise" THEN llm_errors \cup {node}
                           ELSE llm_errors
          /\ tasks' = Remaining(node, FALSE)
          /\ Returns(node, patch[IF answer.kind = "raise" THEN PyStr("")
                                 ELSE answer.content])
    /\ UNCHANGED <<call, credential, cli_pc, state, net, pipe, printed>>

\* a node that builds its prompts from the state and makes one llm.invoke
\* call outside any try block: `patch` maps the content to the node's update
\* (a function over the contents the model can return)
ModelNode(node, patch) ==
    /\ Start(node)
    /\ \E answer \in ModelAnswers :
          /\ llm_calls' = [llm_calls EXCEPT ![node] = @ + 1]
          /\ llm_errors' = IF answer.kind = "raise" THEN llm_errors \cup {node}
                           ELSE llm_errors
          /\ tasks' = Remaining(node, answer.kind = "raise")
          /\ IF answer.kind = "raise"
             THEN Raises(node, "ModelError")
             ELSE Returns(node, patch[answer.content])
    /\ UNCHANGED <<call, credential, cli_pc, state, net, pipe, printed>>

GoogleSummaryPatch(content) == [google_summary |-> content]
\* BingSummaryPatch writing the summary of the Google branch as well
BingSummaryPatchClobbers(content) ==
    [google_summary |-> content, bing_summary |-> content]
BingSummaryPatch(content) == [bing_summary |-> content]
RedditSummaryPatch(content) == [reddit_summary |-> content]

\* the update of combine_insights: the final text and one assistant message
FinalPatch(final) ==
    [final_summary |-> final,
     messages |-> PyList(<<PyDict([role |-> PyStr("assistant"), content |-> final])>>)]

analyze_google_data == ModelNode("analyze_google", [c \in Contents |-> GoogleSummaryPatch(c)])

analyze_bing_data == ModelNode("analyze_bing", [c \in Contents |-> BingSummaryPatch(c)])

analyze_reddit_data == ModelNode("analyze_reddit", [c \in Contents |-> RedditSummaryPatch(c)])

combine_insights == ModelNode("synthesize_results", [c \in Contents |-> FinalPatch(c)])

-----------------------------------------------------------------------------
(* compiled_graph.invoke: the supersteps of the compiled graph *)

\* every task of the superstep returned: the patches are merged into the
\* state and the nodes they point to are scheduled
EndSuperstep ==
    /\ cli_pc = "invoke"
    /\ error = "none"
    /\ tasks = {}
    /\ pipe.pc = "idle"
    /\ writes # <<>>
    /\ state' = ApplyWrites(state, writes)
    /\ tasks' = Triggered(Writers(writes))
    /\ writes' = <<>>
    /\ UNCHANGED <<call, credential, cli_pc, started, completed, error, llm_calls, llm_errors,
                   net, pipe, printed>>

\* no node is scheduled: invoke returns the state, start_agent prints the
\* final summary and a separator when the summary is truthy, and loops
InvokeReturns ==
    /\ cli_pc = "invoke"
    /\ error = "none"
    /\ tasks = {}
    /\ pipe.pc = "idle"
    /\ writes = <<>>
    /\ printed' = IF Truthy(state.final_summary)
                  THEN <<state.final_summary.v, Separator>>
                  ELSE <<>>
    /\ cli_pc' = "input"
    /\ UNCHANGED <<call, credential, state, tasks, writes, started, completed, error,
                   llm_calls, llm_errors, net, pipe>>

\* a node raised and the running tasks of its superstep have ended: invoke
\* raises the exception, which start_agent does not catch
InvokeRaises ==
    /\ cli_pc = "invoke"
    /\ error # "none"
    /\ pipe.pc = "idle"
    /\ cli_pc' = "crashed"
    /\ UNCHANGED <<call, credential, state, tasks, writes, started, completed, error,
                   llm_calls, llm_errors, net, pipe, printed>>

Next ==
    \/ ReadExit
    \/ ReadQuery
    \/ perform_google_search
    \/ perform_bing_search
    \/ perform_reddit_search
    \/ PollAttempt
    \/ PollSleep
    \/ PipelineGiveUp
    \/ PipelineDownload
    \/ reddit_search_return
    \/ extract_reddit_urls
    \/ fetch_reddit_posts
    \/ fetch_reddit_posts_return
    \/ analyze_google_data
    \/ analyze_bing_data
    \/ analyze_reddit_data
    \/ combine_insights
    \/ EndSuperstep
    \/ InvokeReturns
    \/ InvokeRaises

Spec == Init /\ [][Next]_vars

-----------------------------------------------------------------------------
(* The adapters called directly: one call of serp_search, reddit_search_api,*)
(* reddit_post_retrieval or check_snapshot_status with arguments the graph  *)
(* never passes                                                             *)

Keywords == {"q"}

\* engine arguments: the two engines and two that serp_search does not know
EngineArgs == Engines \cup {"yahoo", ""}

\* urls arguments: None, the empty list, and lists of URLs
UrlArgs ==
    {None} \cup {PyList(l) : l \in SeqsUpTo({PyStr(u) : u \in Urls}, MaxUrls + 1)}

\* days_back, load_all_replies, comment_limit: the defaults and other values
OtherArgs == {<<DefaultDaysBack, FALSE, "">>, <<0, TRUE, "5">>}

\* max_retries, interval: the defaults, an empty range, and other values
PollArgs == {<<DefaultMaxRetries, DefaultInterval>>, <<0, 5>>, <<1, 0>>, <<2, 3>>}

AdapterInit ==
    /\ credential \in BOOLEAN
    /\ cli_pc = "direct"
    /\ state = InitialState("")
    /\ tasks = {}
    /\ writes = <<>>
    /\ started = ZeroCount
    /\ completed = {}
    /\ error = "none"
    /\ llm_calls = ZeroCount
    /\ llm_errors = {}
    /\ net = NoRequests
    /\ pipe = IdlePipe
    /\ printed = <<>>
    /\ call = NoCall

\* serp_search(query, engine) is called and returns or raises
serp_search ==
    /\ cli_pc = "direct"
    /\ call.pc = "idle"
    /\ \E query \in Keywords, engine \in EngineArgs, answer \in HttpAnswers(SerpBodies) :
          LET r == SerpSearch(PyStr(query), engine, answer)
          IN  /\ call' = [fn |-> "serp_search",
                          args |-> PyList(<<PyStr(query), PyStr(engine)>>),
                          pc |-> "done", reads |-> r.reads, raises |-> r.raises,
                          result |-> r.value]
              /\ net' = [net EXCEPT !.serp = @ + r.requests]
    /\ UNCHANGED <<credential, cli_pc, state, tasks, writes, started, completed, error,
                   llm_calls, llm_errors, pipe, printed>>

\* an adapter called directly enters _execute_snapshot_pipeline: the
\* credential is read by _send_api_request, then the trigger request is
\* issued and answered
DirectPipeline(fn, args, task_name, dataset_id, payload) ==
    IF ~credential
    THEN /\ call' = [NoCall EXCEPT !.fn = fn, !.args = args, !.pc = "done",
                                   !.reads = 1, !.raises = "EnvironmentError"]
         /\ UNCHANGED <<net, pipe>>
    ELSE /\ call' = [NoCall EXCEPT !.fn = fn, !.args = args, !.pc = "running",
                                   !.reads = 1]
         /\ \E answer \in HttpAnswers(TriggerBodies) :
               pipe' = TriggerStep(fn, task_name, dataset_id, payload, answer)
         /\ net' = [net EXCEPT !.trigger = @ + 1]

\* reddit_search_api(keyword) is called, up to the answer of the trigger
reddit_search_api ==
    /\ cli_pc = "direct"
    /\ call.pc = "idle"
    /\ \E keyword \in Keywords :
          DirectPipeline("reddit_search_api", PyList(<<PyStr(keyword)>>),
                         "reddit search", REDDIT_DISCOVERY_DATASET,
                         RedditSearchPayload(PyStr(keyword)))
    /\ UNCHANGED <<credential, cli_pc, state, tasks, writes, started, completed, error,
                   llm_calls, llm_errors, printed>>

\* reddit_post_retrieval(urls, days_back, load_all_replies, comment_limit) is
\* called: the early return, or the pipeline up to the answer of the trigger
reddit_post_retrieval ==
    /\ cli_pc = "direct"
    /\ call.pc = "idle"
    /\ \E urls \in UrlArgs, other \in OtherArgs :
          LET args == PyList(<<urls, PyInt(other[1]), PyBool(other[2]),
                               PyStr(other[3])>>)
              r == RedditPostRetrievalStart(urls, other[1], other[2], other[3])
          IN  IF r.early
              THEN /\ call' = [NoCall EXCEPT !.fn = "reddit_post_retrieval",
                                             !.args = args, !.pc = "done"]
                   /\ UNCHANGED <<net, pipe>>
              ELSE DirectPipeline("reddit_post_retrieval", args, "reddit comments",
                                  REDDIT_POSTS_DATASET, r.payload)
    /\ UNCHANGED <<credential, cli_pc, state, tasks, writes, started, completed, error,
                   llm_calls, llm_errors, printed>>

\* the pipeline returned snapshot_data to the adapter, which returns None,
\* returns the parsed records, or raises out of its comprehension; pipe keeps
\* what the pipeline did
adapter_return ==
    /\ cli_pc = "direct"
    /\ call.pc = "running"
    /\ pipe.pc = "returned"
    /\ call' = [call EXCEPT
                  !.pc = "done",
                  !.raises = ComprehensionRaises(pipe.result),
                  !.result = IF ComprehensionRaises(pipe.result) # "none" THEN None
                             ELSE IF call.fn = "reddit_search_api"
                             THEN RedditSearchResult(pipe.result)
                             ELSE RedditPostResult(pipe.result)]
    /\ UNCHANGED <<credential, cli_pc, state, tasks, writes, started, completed, error,
                   llm_calls, llm_errors, net, pipe, printed>>

\* check_snapshot_status(snapshot_id, max_retries, interval) is called on
\* its own: the credential is read, then the loop is entered
check_snapshot_status ==
    /\ cli_pc = "direct"
    /\ call.pc = "idle"
    /\ \E id \in SnapshotIds, a \in PollArgs :
          LET args == PyList(<<PyStr(id), PyInt(a[1]), PyInt(a[2])>>)
          IN  IF ~credential
              THEN /\ call' = [NoCall EXCEPT !.fn = "check_snapshot_status",
                                             !.args = args, !.pc = "done", !.reads = 1,
                                             !.raises = "EnvironmentError"]
                   /\ pipe' = pipe
              ELSE /\ call' = [NoCall EXCEPT !.fn = "check_snapshot_status",
                                             !.args = args, !.pc = "running",
                                             !.reads = 1]
                   /\ pipe' = EnterPoll([IdlePipe EXCEPT
                                            !.caller = "check_snapshot_status"],
                                        PyStr(id), a[1], a[2])
    /\ UNCHANGED <<credential, cli_pc, state, tasks, writes, started, completed, error,
                   llm_calls, llm_errors, net, printed>>

\* check_snapshot_status returns True or False to its caller; pipe keeps
\* what the loop did
status_return ==
    /\ cli_pc = "direct"
    /\ call.fn = "check_snapshot_status"
    /\ call.pc = "running"
    /\ pipe.pc = "checked"
    /\ call' = [call EXCEPT !.pc = "done", !.result = pipe.ready]
    /\ UNCHANGED <<credential, cli_pc, state, tasks, writes, started, completed, error,
                   llm_calls, llm_errors, net, pipe, printed>>

AdapterNext ==
    \/ serp_search
    \/ reddit_search_api
    \/ reddit_post_retrieval
    \/ PollAttempt
    \/ PollSleep
    \/ PipelineGiveUp
    \/ PipelineDownload
    \/ adapter_return
    \/ check_snapshot_status
    \/ status_return

AdapterSpec == AdapterInit /\ [][AdapterNext]_vars

\* the call runs in one thread, statement after statement: a step that can
\* be taken is taken, every request being answered and every sleep ending
FairAdapterSpec ==
    /\ AdapterSpec
    /\ WF_vars(PollAttempt)
    /\ WF_vars(PollSleep)
    /\ WF_vars(PipelineGiveUp)
    /\ WF_vars(PipelineDownload)
    /\ WF_vars(adapter_return)
    /\ WF_vars(status_return)

-----------------------------------------------------------------------------
(* Properties of the polling loop *)

\* the status the provider's answer carries, None when the answer is a
\* failure or its body is no object
StatusOf(answer) ==
    IF answer.kind = "ok" /\ answer.body.t = "dict"
    THEN DictGet(answer.body, "status")
    ELSE None

\* the last status request was answered with a terminal status
SawReady == pipe.requests > 0 /\ StatusOf(pipe.answer) = PyStr("ready")
SawFailed == pipe.requests > 0 /\ StatusOf(pipe.answer) = PyStr("failed")

\* the last status request was answered with anything else: a transport
\* error, an HTTP error status, an unparsable body, a body that is no object,
\* or a status other than ready and failed
SawTransient == pipe.requests > 0 /\ ~SawReady /\ ~SawFailed

\* C1: as soon as a status request is answered ready, check_snapshot_status
\* has returned True, and as soon as one is answered failed it has returned
\* False, at whatever attempt: the request of that attempt is the last one
\* (requests = attempt), no sleep follows it (one sleep per earlier attempt),
\* and no polling step (request or sleep) can be taken from there.
C1_TerminalStatusReturnsAtOnce ==
    SawReady \/ SawFailed =>
        /\ pipe.pc = "checked"
        /\ pipe.ready = PyBool(SawReady)
        /\ pipe.requests = pipe.attempt
        /\ pipe.sleeps = pipe.attempt - 1
        /\ ~ENABLED PollAttempt
        /\ ~ENABLED PollSleep

C1_Witness == SawFailed /\ pipe.attempt = 3

\* C2: when the answers of k attempts were not terminal (k < max_retries) and
\* the next one is ready, check_snapshot_status returns True on attempt k + 1
\* having issued exactly k + 1 status requests.
C2_ReadyAfterKTransients ==
    SawReady =>
        /\ pipe.pc = "checked"
        /\ pipe.ready = PyBool(TRUE)
        /\ pipe.transient < pipe.max_retries
        /\ pipe.attempt = pipe.transient + 1
        /\ pipe.requests = pipe.transient + 1

C2_Witness == SawReady /\ pipe.transient = 2

\* C3: when none of the max_retries attempts is answered with a terminal
\* status, check_snapshot_status returns False after exactly max_retries
\* status requests; before every request as many sleeps as requests have
\* been made, and after a request that does not return exactly one sleep is
\* pending, so two requests are always one sleep of `interval` seconds apart.
C3_TimeoutAfterMaxAttempts ==
    /\ pipe.pc = "checked" /\ SawTransient =>
          /\ pipe.ready = PyBool(FALSE)
          /\ pipe.requests = pipe.max_retries
          /\ pipe.transient = pipe.max_retries
    /\ pipe.pc = "request" => pipe.sleeps = pipe.requests
    /\ pipe.pc = "sleep" => pipe.sleeps = pipe.requests - 1
    /\ pipe.slept = pipe.sleeps * pipe.interval
    /\ pipe.requests <= pipe.max_retries

C3_Witness ==
    /\ pipe.pc = "checked"
    /\ SawTransient
    /\ pipe.requests = DefaultMaxRetries

\* C4: an answer that is not ready or failed (transport error, HTTP error
\* status, unparsable body, other status) never ends the loop and never
\* raises: the loop is at the sleep of the same attempt or, after it, at the
\* request of the next one, every answer so far having used up one attempt,
\* and it has returned only if the attempts are exhausted; the run's error is
\* untouched; and the sleep leads to the next attempt, or to the timeout when
\* the attempt was the last one.
C4_TransientAnswersAreRetried ==
    /\ [](SawTransient =>
            /\ pipe.transient = pipe.requests
            /\ \/ pipe.pc = "sleep" /\ pipe.attempt = pipe.requests
                  /\ pipe.ready = None
               \/ pipe.pc = "request" /\ pipe.attempt = pipe.requests + 1
                  /\ pipe.ready = None
               \/ pipe.pc = "checked" /\ pipe.requests = pipe.max_retries
                  /\ pipe.sleeps = pipe.max_retries)
    /\ [][PollAttempt \/ PollSleep => error' = error]_vars
    /\ [][pipe.pc = "sleep" /\ pipe' # pipe =>
            \/ /\ pipe.attempt < pipe.max_retries
               /\ pipe'.pc = "request"
               /\ pipe'.attempt = pipe.attempt + 1
               /\ pipe'.requests = pipe.requests
            \/ /\ pipe.attempt = pipe.max_retries
               /\ pipe'.pc = "checked"
               /\ pipe'.ready = PyBool(FALSE)]_vars

C4_Witness ==
    /\ pipe.pc = "sleep"
    /\ pipe.answer.kind = "bad_json"
    /\ pipe.attempt = 2

-----------------------------------------------------------------------------
(* Properties of _execute_snapshot_pipeline *)

\* check_snapshot_status is running or has just returned
Polling == pipe.pc \in {"request", "sleep", "checked"}

\* C5: the stages of a pipeline call come in the order trigger, poll,
\* download, each only after the one before succeeded: polling happens only
\* after one trigger request whose response carried a non-empty snapshot_id,
\* the download only after check_snapshot_status returned True, both with the
\* identifier the trigger returned; and when the trigger fails, the
\* identifier is missing, the status is failed, the attempts run out or the
\* download fails, the call returns None with no later stage performed.
C5_StagesInOrder ==
    /\ pipe.pc # "idle" => pipe.triggers = 1
    /\ Polling \/ pipe.ready # None \/ pipe.downloads > 0 =>
          /\ Truthy(pipe.trigger_id)
          /\ pipe.snapshot_id = pipe.trigger_id
    /\ pipe.requests > 0 => pipe.polled_id = pipe.trigger_id
    /\ pipe.pc # "returned" => pipe.downloads = 0
    /\ pipe.downloads > 0 =>
          /\ pipe.downloads = 1
          /\ pipe.ready = PyBool(TRUE)
          /\ pipe.download_id = pipe.trigger_id
    /\ pipe.pc = "returned" /\ ~Truthy(pipe.trigger_id) =>
          pipe.ready = None /\ pipe.downloads = 0 /\ pipe.result = None
    /\ pipe.pc = "returned" /\ pipe.ready = PyBool(FALSE) =>
          pipe.downloads = 0 /\ pipe.result = None
    /\ pipe.pc = "returned" /\ pipe.ready = PyBool(TRUE) =>
          /\ pipe.downloads = 1
          /\ pipe.answer.kind # "ok" => pipe.result = None
          /\ pipe.answer.kind = "ok" => pipe.result = pipe.answer.body

C5_Witness ==
    /\ pipe.pc = "returned"
    /\ pipe.downloads = 1
    /\ pipe.snapshot_id = PyStr("s2")
    /\ Truthy(pipe.result)

-----------------------------------------------------------------------------
(* Properties of the orchestration graph *)

\* compiled_graph.invoke has ended, by returning or by raising
RunOver == cli_pc = "crashed" \/ (cli_pc \in {"input", "exited"} /\ completed # {})

\* the value a field has for the nodes still to run: the last patch of the
\* current superstep that sets it, else the value in the state
RECURSIVE Latest(_, _, _)
Latest(f, ws, default) ==
    IF ws = <<>> THEN default
    ELSE IF f \in DOMAIN ws[Len(ws)].patch THEN ws[Len(ws)].patch[f]
    ELSE Latest(f, SubSeq(ws, 1, Len(ws) - 1), default)

Field(f) == Latest(f, writes, state[f])

SearchNodes == {"google_search", "bing_search", "reddit_search"}
AnalyzeNodes == {"analyze_google", "analyze_bing", "analyze_reddit"}

\* C6 as stated: every run that no uncaught model error aborted has executed
\* each of the nine nodes exactly once.
C6_AsStated ==
    RunOver /\ error # "ModelError" => \A n \in Nodes : started[n] = 1

\* C6 amended: no node is ever executed more than once, and every run that
\* no uncaught exception aborted (a model error, or the configuration error
\* of a missing credential) has executed each of the nine nodes exactly once.
C6_EveryNodeOnce ==
    /\ \A n \in Nodes : started[n] <= 1
    /\ RunOver /\ error = "none" => \A n \in Nodes : started[n] = 1

C6_Witness == RunOver /\ error = "none" /\ started["synthesize_results"] = 1

\* C7: a node starts only after the nodes it depends on have returned:
\* extract_reddit_urls after the three searches, fetch_reddit_posts after
\* extract_reddit_urls, each analyze node after fetch_reddit_posts, and
\* synthesize_results after the three analyze nodes, when every other node
\* has returned and none is scheduled or running.
C7_DependenciesRespected ==
    /\ started["extract_reddit_urls"] > 0 => SearchNodes \subseteq completed
    /\ started["fetch_reddit_posts"] > 0 => "extract_reddit_urls" \in completed
    /\ \A a \in AnalyzeNodes : started[a] > 0 => "fetch_reddit_posts" \in completed
    /\ started["synthesize_results"] > 0 =>
          /\ AnalyzeNodes \subseteq completed
          /\ Nodes \ {"synthesize_results"} \subseteq completed
          /\ tasks = {}
          /\ pipe.pc = "idle"

C7_Witness ==
    /\ started["synthesize_results"] = 1
    /\ "synthesize_results" \notin completed
    /\ error = "ModelError"

Populated(f) == state[f] # None

\* C8 as stated: a summary field is populated only if its raw-output field
\* is non-null, and final_summary only if the three summaries are populated.
C8_AsStated ==
    /\ Populated("google_summary") => Populated("google_output")
    /\ Populated("bing_summary") => Populated("bing_output")
    /\ Populated("reddit_summary") => Populated("reddit_output")
    /\ Populated("final_summary") =>
          /\ Populated("google_summary")
          /\ Populated("bing_summary")
          /\ Populated("reddit_summary")

\* C8 amended: a summary field is populated only after the search node of
\* its source has returned and its raw-output field has been written, with
\* null when the provider failed; final_summary is populated only if the
\* three summary fields are populated.
C8_SummariesAfterSearches ==
    /\ Populated("google_summary") =>
          "google_search" \in completed /\ "analyze_google" \in completed
    /\ Populated("bing_summary") =>
          "bing_search" \in completed /\ "analyze_bing" \in completed
    /\ Populated("reddit_summary") =>
          "reddit_search" \in completed /\ "analyze_reddit" \in completed
    /\ Populated("final_summary") =>
          /\ Populated("google_summary")
          /\ Populated("bing_summary")
          /\ Populated("reddit_summary")

C8_Witness ==
    /\ Populated("final_summary")
    /\ ~Populated("google_output")
    /\ Populated("reddit_output")

\* reddit_search has returned and what it returned is None
RedditSearchGaveNull ==
    "reddit_search" \in completed /\ Field("reddit_output") = None

SummaryNodes == AnalyzeNodes \cup {"synthesize_results"}

\* C9: when reddit_search yields null the run is never aborted unless a
\* summarization or synthesis model call fails: extract_reddit_urls returns
\* [] without asking the model, fetch_reddit_posts returns [] without a
\* trigger request, analyze_reddit returns a summary, the run cannot get
\* stuck, and once it is over with no model call having failed every node
\* has run and reddit_summary and final_summary are populated.
C9_NullRedditSearchDegrades ==
    RedditSearchGaveNull =>
        /\ error \in {"none", "ModelError"}
        /\ error = "ModelError" => llm_errors \cap SummaryNodes # {}
        /\ "extract_reddit_urls" \in completed =>
              /\ Field("chosen_reddit_urls") = PyList(<<>>)
              /\ llm_calls["extract_reddit_urls"] = 0
        /\ "fetch_reddit_posts" \in completed =>
              /\ Field("reddit_posts_data") = PyList(<<>>)
              /\ net.trigger = 1
        /\ "analyze_reddit" \in completed => Field("reddit_summary") # None
        /\ cli_pc = "invoke" => ENABLED Next
        /\ RunOver /\ llm_errors = {} =>
              /\ cli_pc # "crashed"
              /\ \A n \in Nodes : started[n] = 1
              /\ Populated("reddit_summary")
              /\ Populated("final_summary")

C9_Witness ==
    /\ RedditSearchGaveNull
    /\ RunOver
    /\ llm_errors = {}
    /\ Populated("google_output")

\* C10: extract_reddit_urls never halts the graph: it always returns; it asks
\* the model exactly once when reddit_output is truthy and not at all
\* otherwise; absent output or a failed model call gives the empty list; and
\* after it returned, fetch_reddit_posts is the next node to run and has run
\* by the time the run is over.
C10_ExtractNeverHalts ==
    /\ started["extract_reddit_urls"] > 0 => "extract_reddit_urls" \in completed
    /\ "extract_reddit_urls" \in completed =>
          /\ llm_calls["extract_reddit_urls"] =
                (IF Truthy(state.reddit_output) THEN 1 ELSE 0)
          /\ ~Truthy(state.reddit_output) \/ "extract_reddit_urls" \in llm_errors =>
                Field("chosen_reddit_urls") = PyList(<<>>)
          /\ started["fetch_reddit_posts"] = 0 =>
                /\ cli_pc = "invoke"
                /\ error = "none"
                /\ ENABLED EndSuperstep \/ ENABLED fetch_reddit_posts
          /\ RunOver => started["fetch_reddit_posts"] = 1

C10_Witness ==
    /\ "extract_reddit_urls" \in llm_errors
    /\ "fetch_reddit_posts" \in completed

-----------------------------------------------------------------------------
(* Properties of error handling *)

\* C11: a summarization or synthesis node makes exactly one model call each
\* time it runs, with no retry; when the call fails the node returns nothing
\* (no fallback value), the exception is the run's, nothing further is
\* scheduled, merged or returned, and invoke can only raise; in a run that an
\* exception aborted final_summary is never populated and nothing is printed.
C11_ModelFailureIsFatal ==
    /\ \A n \in SummaryNodes :
          /\ llm_calls[n] = started[n]
          /\ llm_calls[n] <= 1
          /\ n \in llm_errors =>
                /\ n \notin completed
                /\ error = "ModelError"
                /\ tasks = {}
                /\ cli_pc \in {"invoke", "crashed"}
                /\ cli_pc = "invoke" =>
                      /\ ENABLED InvokeRaises
                      /\ ~ENABLED EndSuperstep
                      /\ ~ENABLED InvokeReturns
    /\ error # "none" =>
          /\ state.final_summary = None
          /\ Field("final_summary") = None
          /\ "synthesize_results" \notin completed
          /\ printed = <<>>

C11_Witness ==
    /\ "synthesize_results" \in llm_errors
    /\ cli_pc = "crashed"

\* C12 as stated: with the credential present no adapter raises to the node
\* that called it, whatever the provider answers (transport and HTTP errors,
\* a failed snapshot, a poll timeout, a download error, a download of any
\* shape): the only exception that can abort a run is a model error.
C12_AsStated ==
    credential => error \in {"none", "ModelError"}

\* C13: when the credential is absent the first adapter call of a run raises
\* the configuration error: no SERP request, trigger, status poll or download
\* has been issued, the node that made the call has not returned (its null
\* result would be a patch), no raw-output field is written, and no node
\* after the searches ever starts.
C13_MissingCredentialRaisesFirst ==
    ~credential =>
        /\ net = NoRequests
        /\ pipe = IdlePipe
        /\ completed = {}
        /\ writes = <<>>
        /\ \A f \in {"google_output", "bing_output", "reddit_output"} : state[f] = None
        /\ \A n \in Nodes \ SearchNodes : started[n] = 0
        /\ (\E n \in SearchNodes : started[n] > 0) =>
              /\ error = "EnvironmentError"
              /\ tasks = {}
              /\ cli_pc \in {"invoke", "crashed"}
              /\ cli_pc = "invoke" => ENABLED InvokeRaises /\ ~ENABLED InvokeReturns

C13_Witness ==
    /\ ~credential
    /\ cli_pc = "crashed"
    /\ started["reddit_search"] = 1

-----------------------------------------------------------------------------
(* Properties of the adapters called directly *)

\* the argument in position i of the direct call
Arg(i) == call.args.v[i]

\* C14: reddit_post_retrieval called with an empty URL list has returned
\* None at once, and no trigger, poll or download was issued, nor the
\* credential read, whatever days_back, load_all_replies and comment_limit
\* are and whether or not the credential is set.
C14_EmptyUrlsIsNoOp ==
    call.fn = "reddit_post_retrieval" /\ Arg(1) = PyList(<<>>) =>
        /\ call.pc = "done"
        /\ call.raises = "none"
        /\ call.result = None
        /\ call.reads = 0
        /\ net = NoRequests
        /\ pipe = IdlePipe
        /\ ~ENABLED AdapterNext

C14_Witness ==
    /\ call.fn = "reddit_post_retrieval"
    /\ Arg(1) = PyList(<<>>)
    /\ Arg(2) = PyInt(0)
    /\ call.result = None
    /\ ~credential

-----------------------------------------------------------------------------
(* Properties of fetch_reddit_posts *)

\* fetch_reddit_posts has run and is over: it started and no pipeline call
\* of its adapter is in progress
FetchOver == started["fetch_reddit_posts"] > 0 /\ pipe.caller # "fetch_reddit_posts"

\* C15 as stated: once fetch_reddit_posts has run, reddit_posts_data is not
\* null: it is the empty list, without any request of the node, when
\* chosen_reddit_urls is empty or absent, and a list or the parsed comments
\* otherwise.
C15_AsStated ==
    FetchOver =>
        /\ Field("reddit_posts_data") # None
        /\ ~Truthy(state.chosen_reddit_urls) =>
              /\ Field("reddit_posts_data") = PyList(<<>>)
              /\ net.trigger <= 1
              /\ net.download <= 1

-----------------------------------------------------------------------------
(* Properties of the record mapping *)

\* a direct call of reddit_search_api or reddit_post_retrieval is over and
\* its pipeline downloaded a JSON array
ListDownload ==
    /\ call.fn \in {"reddit_search_api", "reddit_post_retrieval"}
    /\ call.pc = "done"
    /\ pipe.downloads = 1
    /\ pipe.answer.kind = "ok"
    /\ pipe.answer.body.t = "list"

\* the entries of that array
Downloaded == pipe.answer.body.v

\* the positions of the object entries of an array
DictPositions(l) == {i \in 1..Len(l) : l[i].t = "dict"}

\* the k-th smallest element of a set of positions
NthOf(S, k) == CHOOSE x \in S : Cardinality({y \in S : y <= x}) = k

\* the record each adapter makes of an object entry
Project(fn, e) ==
    IF fn = "reddit_search_api"
    THEN PyDict([title |-> DictGet(e, "title"), url |-> DictGet(e, "url")])
    ELSE PyDict([comment_id |-> DictGet(e, "comment_id"),
                 content |-> DictGet(e, "comment"),
                 date |-> DictGet(e, "date_posted")])

RecordsKey(fn) == IF fn = "reddit_search_api" THEN "parsed_posts" ELSE "comments"
TotalKey(fn) == IF fn = "reddit_search_api" THEN "total_found" ELSE "total_retrieved"

\* the call returned, without raising, one record per object entry of the
\* download, in the order of the download, and the number of these records
RecordsKept ==
    /\ call.raises = "none"
    /\ call.result.t = "dict"
    /\ LET recs == call.result.v[RecordsKey(call.fn)].v
           pos == DictPositions(Downloaded)
       IN  /\ Len(recs) = Cardinality(pos)
           /\ \A k \in 1..Len(recs) :
                 recs[k] = Project(call.fn, Downloaded[NthOf(pos, k)])
           /\ call.result.v[TotalKey(call.fn)] = PyInt(Len(recs))

\* C16 as stated: for every download that is a list the adapter keeps
\* exactly the object entries, in order, drops the others without raising,
\* and reports their number as the total.
C16_AsStated == ListDownload => RecordsKept

\* C16 amended: the same for every download that is a non-empty list (an
\* empty list makes the adapter return None, with no record list or total).
C16_ListRecordsKept == ListDownload /\ Downloaded # <<>> => RecordsKept

C16_Witness ==
    /\ ListDownload
    /\ Len(Downloaded) = 2
    /\ Downloaded[1].t # "dict"
    /\ Downloaded[2].t = "dict"
    /\ call.result.t = "dict"

-----------------------------------------------------------------------------
(* Properties of serp_search *)

\* C17: serp_search called with an engine other than google and bing has
\* raised ValueError: it returned nothing, issued no request and did not read
\* the credential, whether or not the credential is set.
C17_InvalidEngineFailsFast ==
    call.fn = "serp_search" /\ Arg(2).v \notin {"google", "bing"} =>
        /\ call.pc = "done"
        /\ call.raises = "ValueError"
        /\ call.result = None
        /\ call.reads = 0
        /\ net = NoRequests
        /\ pipe = IdlePipe

C17_Witness ==
    /\ call.fn = "serp_search"
    /\ Arg(2) = PyStr("yahoo")
    /\ call.raises = "ValueError"
    /\ credential

-----------------------------------------------------------------------------
(* Properties of the message log *)

\* the message start_agent puts in the log, and the one combine_insights adds
UserMessage == PyDict([role |-> PyStr("user"), content |-> state.user_query])
AssistantMessage(text) == PyDict([role |-> PyStr("assistant"), content |-> text])

\* s is an initial segment of t
IsPrefix(s, t) == Len(s) <= Len(t) /\ SubSeq(t, 1, Len(s)) = s

\* C18: only synthesize_results returns an update of the log, and that update
\* is one assistant message whose content is the final summary it returns;
\* the log is the user message alone until that update is merged, and the
\* user message followed by that one assistant message afterwards, as it is
\* when a run has completed; and no step of a run removes or rewrites an
\* entry: the log before the step is an initial segment of the log after it.
C18_MessageLogAppendOnly ==
    /\ [](/\ \A i \in 1..Len(writes) :
                "messages" \in DOMAIN writes[i].patch =>
                    /\ writes[i].node = "synthesize_results"
                    /\ writes[i].patch.messages =
                          PyList(<<AssistantMessage(writes[i].patch.final_summary)>>)
          /\ IF state.final_summary = None
             THEN state.messages.v = <<UserMessage>>
             ELSE state.messages.v =
                     <<UserMessage, AssistantMessage(state.final_summary)>>
          /\ RunOver /\ error = "none" =>
                state.messages.v = <<UserMessage, AssistantMessage(state.final_summary)>>)
    /\ [][cli_pc = "invoke" => IsPrefix(state.messages.v, state'.messages.v)]_vars

C18_Witness ==
    /\ RunOver
    /\ error = "none"
    /\ Len(state.messages.v) = 2
    /\ state.messages.v[2] = AssistantMessage(PyStr("text"))

-----------------------------------------------------------------------------
(* Properties of the concurrent nodes *)

\* the state field each search and analysis node returns
OwnField ==
    [google_search |-> "google_output", bing_search |-> "bing_output",
     reddit_search |-> "reddit_output", analyze_google |-> "google_summary",
     analyze_bing |-> "bing_summary", analyze_reddit |-> "reddit_summary"]

\* the orders in which n patches can be merged
Orders(n) == {f \in [1..n -> 1..n] : \A i, j \in 1..n : f[i] = f[j] => i = j}

\* C19: the nodes that return in one superstep are search nodes only or
\* analysis nodes only, or a single node; each search or analysis node
\* returns its own field and nothing else, so the updates of a superstep
\* set pairwise disjoint fields; and merging these updates into the state
\* gives the same state in whatever order the nodes returned.
C19_ConcurrentWritesCommute ==
    /\ Len(writes) > 1 =>
          \/ Writers(writes) \subseteq SearchNodes
          \/ Writers(writes) \subseteq AnalyzeNodes
    /\ \A i \in 1..Len(writes) :
          writes[i].node \in DOMAIN OwnField =>
              DOMAIN writes[i].patch = {OwnField[writes[i].node]}
    /\ \A i, j \in 1..Len(writes) :
          i # j => /\ writes[i].node # writes[j].node
                   /\ DOMAIN writes[i].patch \cap DOMAIN writes[j].patch = {}
    /\ \A f \in Orders(Len(writes)) :
          ApplyWrites(state, [k \in 1..Len(writes) |-> writes[f[k]]])
              = ApplyWrites(state, writes)

C19_Witness ==
    /\ Len(writes) = 3
    /\ Writers(writes) = AnalyzeNodes
    /\ writes[1].node = "analyze_reddit"
    /\ writes[3].node = "analyze_google"
    /\ Field("google_summary") # Field("bing_summary")

-----------------------------------------------------------------------------
(* Properties of the CLI loop *)

\* the lines that spell exit in some letter case
ExitLines == {"exit", "EXIT", "Exit"}

\* invoke returned to start_agent, which is back at input() or has exited
RunReturned == cli_pc \in {"input", "exited"} /\ completed # {}

-----------------------------------------------------------------------------
(* A later query: start_agent is back at input() after a completed run *)

\* the state a completed run of the query "q" leaves, every field populated
StateAfterRun ==
    [messages |-> PyList(<<PyDict([role |-> PyStr("user"), content |-> PyStr("q")]),
                           PyDict([role |-> PyStr("assistant"),
                                   content |-> PyStr("text")])>>),
     user_query |-> PyStr("q"),
     google_output |-> SerpResult(PyDict([knowledge |-> PyStr("k"),
                                          organic |-> PyStr("o")])),
     bing_output |-> SerpResult(PyDict([knowledge |-> PyStr("k"),
                                        organic |-> PyStr("o")])),
     reddit_output |->
        RedditSearchResult(PyList(<<PyDict([title |-> PyStr("t1"),
                                            url |-> PyStr("u1")])>>)),
     chosen_reddit_urls |-> PyList(<<PyStr("u1")>>),
     reddit_posts_data |->
        RedditPostResult(PyList(<<PyDict([comment_id |-> PyStr("c1"),
                                          comment |-> PyStr("hello"),
                                          date_posted |-> PyStr("d1")])>>)),
     google_summary |-> PyStr("text"),
     bing_summary |-> PyStr("text"),
     reddit_summary |-> PyStr("text"),
     final_summary |-> PyStr("text")]

\* start_agent has printed the answer to "q" and waits for the next line
AfterRun ==
    /\ credential = TRUE
    /\ cli_pc = "input"
    /\ state = StateAfterRun
    /\ tasks = {}
    /\ writes = <<>>
    /\ started = [n \in Nodes |-> 1]
    /\ completed = Nodes
    /\ error = "none"
    /\ llm_calls = [n \in Nodes |->
                       IF n \in SummaryNodes \cup {"extract_reddit_urls"} THEN 1 ELSE 0]
    /\ llm_errors = {}
    /\ net = [serp |-> 2, trigger |-> 2, download |-> 2]
    /\ pipe = IdlePipe
    /\ printed = <<"text", Separator>>
    /\ call = NoCall

LaterQuerySpec == AfterRun /\ [][Next]_vars

\* the node that writes each field of the state other than the log
FieldWriter ==
    [google_output |-> "google_search", bing_output |-> "bing_search",
     reddit_output |-> "reddit_search", chosen_reddit_urls |-> "extract_reddit_urls",
     reddit_posts_data |-> "fetch_reddit_posts", google_summary |-> "analyze_google",
     bing_summary |-> "analyze_bing", reddit_summary |-> "analyze_reddit",
     final_summary |-> "synthesize_results"]

\* C21: when a line starts a run, the state handed to the graph has every
\* raw-output, URL, post-data and summary field null and a log that holds
\* only the user message of that line; and while the run is going on a field
\* is non-null only if its node returned in this run, and the log holds this
\* query's user message, followed by an assistant message only if
\* synthesize_results returned in this run: nothing of an earlier run shows.
C21_FreshStatePerQuery ==
    /\ [](cli_pc = "invoke" =>
            /\ \A f \in DOMAIN FieldWriter :
                  state[f] # None => FieldWriter[f] \in completed
            /\ Len(state.messages.v) \in {1, 2}
            /\ state.messages.v[1] = UserMessage
            /\ Len(state.messages.v) = 2 =>
                  /\ "synthesize_results" \in completed
                  /\ state.messages.v[2] = AssistantMessage(state.final_summary))
    /\ [][cli_pc = "input" /\ cli_pc' = "invoke" =>
             /\ \A f \in DOMAIN FieldWriter : state'[f] = None
             /\ state'.messages.v =
                   <<PyDict([role |-> PyStr("user"), content |-> state'.user_query])>>
             /\ completed' = {}
             /\ writes' = <<>>]_vars

C21_Witness ==
    /\ cli_pc = "invoke"
    /\ state.user_query = PyStr("")
    /\ "google_search" \in completed
    /\ state.final_summary = None
    /\ Len(state.messages.v) = 1

-----------------------------------------------------------------------------
(* Properties of the polling loop called with any max_retries and interval *)

\* check_snapshot_status has returned False without having seen the status
\* failed: the attempts ran out
TimedOut ==
    /\ pipe.pc = "checked"
    /\ pipe.ready = PyBool(FALSE)
    /\ ~SawFailed

\* C22: when check_snapshot_status times out it has slept exactly
\* max_retries times, once after every attempt, the last one included, for
\* max_retries * interval seconds in all: 300 seconds with the defaults
\* max_retries = 60 and interval = 5.
C22_TimeoutSleepsMaxAttemptsTimesInterval ==
    TimedOut =>
        /\ pipe.sleeps = pipe.max_retries
        /\ pipe.slept = pipe.max_retries * pipe.interval
        /\ pipe.max_retries = 60 /\ pipe.interval = 5 => pipe.slept = 300

C22_Witness ==
    /\ TimedOut
    /\ call.fn = "check_snapshot_status"
    /\ Arg(2) = PyInt(60)
    /\ Arg(3) = PyInt(5)
    /\ pipe.slept = 300

-----------------------------------------------------------------------------
(* Termination of the snapshot pipeline *)

\* C23: whatever the provider answers, a call that entered the pipeline or
\* the polling loop ends: check_snapshot_status makes at most max_retries
\* status requests and returns True after ready, False after failed, or False
\* when the attempts ran out; _execute_snapshot_pipeline issues at most one
\* trigger and one download and returns None or the body of the download; a
\* running call can always take a step, and it is eventually done.
C23_PipelineTerminates ==
    /\ [](/\ pipe.triggers <= 1
          /\ net.trigger <= 1
          /\ pipe.requests <= pipe.max_retries
          /\ pipe.attempt <= pipe.max_retries
          /\ pipe.downloads <= 1
          /\ net.download <= 1
          /\ pipe.pc = "checked" =>
                \/ SawReady /\ pipe.ready = PyBool(TRUE)
                \/ SawFailed /\ pipe.ready = PyBool(FALSE)
                \/ TimedOut /\ pipe.requests = pipe.max_retries
          /\ pipe.pc = "returned" =>
                \/ pipe.result = None
                \/ pipe.downloads = 1 /\ pipe.result = pipe.answer.body
          /\ call.pc = "running" => ENABLED AdapterNext)
    /\ (call.pc = "running") ~> (call.pc = "done")

C23_Witness ==
    /\ TimedOut
    /\ pipe.caller = "reddit_post_retrieval"
    /\ pipe.triggers = 1
    /\ pipe.requests = DefaultMaxRetries

-----------------------------------------------------------------------------
(* Properties of the batch of reddit_post_retrieval *)

\* reddit_post_retrieval was called with a list of at least one URL and got
\* past the reading of the credential
BatchCall ==
    /\ call.fn = "reddit_post_retrieval"
    /\ Arg(1).t = "list"
    /\ Arg(1).v # <<>>
    /\ call.raises # "EnvironmentError"

\* a stage of the pipeline of the call failed: the trigger gave no snapshot
\* identifier, the polling ended without ready, or the download failed
StageFailed ==
    \/ pipe.snapshot_id = None
    \/ pipe.ready = PyBool(FALSE)
    \/ pipe.downloads = 1 /\ pipe.answer.kind # "ok"

\* C24: reddit_post_retrieval called with n >= 1 URLs has issued exactly one
\* trigger request, to the posts dataset, whose payload has n entries, the
\* i-th for the i-th URL with the call's days_back, load_all_replies and
\* comment_limit; it runs one pipeline, with at most one download; and when
\* a stage of that pipeline failed the call returned None, not a record
\* list, without any further trigger.
C24_OneBatchNoPartialSuccess ==
    BatchCall =>
        /\ net.trigger = 1
        /\ pipe.triggers = 1
        /\ pipe.caller = "reddit_post_retrieval"
        /\ pipe.dataset_id = REDDIT_POSTS_DATASET
        /\ pipe.payload.t = "list"
        /\ Len(pipe.payload.v) = Len(Arg(1).v)
        /\ \A i \in 1..Len(Arg(1).v) :
              pipe.payload.v[i] =
                  PyDict([url |-> Arg(1).v[i], days_back |-> Arg(2),
                          load_all_replies |-> Arg(3), comment_limit |-> Arg(4)])
        /\ net.download = pipe.downloads
        /\ pipe.downloads <= 1
        /\ pipe.downloads = 1 => pipe.ready = PyBool(TRUE)
        /\ call.pc = "done" /\ StageFailed =>
              /\ call.result = None
              /\ call.raises = "none"
              /\ ~ENABLED AdapterNext

C24_Witness ==
    /\ BatchCall
    /\ call.pc = "done"
    /\ Arg(1) = PyList(<<PyStr("u1"), PyStr("u2")>>)
    /\ pipe.downloads = 1
    /\ pipe.answer.kind = "http_error"
    /\ call.result = None

-----------------------------------------------------------------------------
(* Properties of the result of the Reddit adapters *)

\* a direct call of reddit_search_api or reddit_post_retrieval that entered
\* the pipeline is over
PipelineCallOver ==
    /\ call.fn \in {"reddit_search_api", "reddit_post_retrieval"}
    /\ call.pc = "done"
    /\ pipe.triggers = 1

\* the pipeline of the call succeeded: ready was polled and the download
\* was answered with a JSON body
PipelineSucceeded ==
    /\ pipe.ready = PyBool(TRUE)
    /\ pipe.downloads = 1
    /\ pipe.answer.kind = "ok"

\* C25 as stated: the adapter returns a non-null result exactly when its
\* pipeline succeeded and the downloaded payload is non-empty (not falsy);
\* an empty list downloaded after ready gives None, and a non-empty list
\* with no object entry gives a result with an empty record list and total 0.
C25_AsStated ==
    PipelineCallOver =>
        /\ (call.raises = "none" /\ call.result # None)
              <=> (PipelineSucceeded /\ Truthy(pipe.answer.body))
        /\ ListDownload /\ Downloaded = <<>> => call.result = None
        /\ ListDownload /\ Downloaded # <<>> /\ DictPositions(Downloaded) = {} =>
              /\ call.result.t = "dict"
              /\ call.result.v[RecordsKey(call.fn)] = PyList(<<>>)
              /\ call.result.v[TotalKey(call.fn)] = PyInt(0)
====
